---- MODULE Spec2Model ----
(***************************************************************************)
(* A model of cprofilev (src/cprofilev.py): the query/link codec get_href, *)
(* the CProfileVStats adapter (stream, read and its two rewriting passes)  *)
(* and the CProfileV registry and request handlers.                        *)
(*                                                                         *)
(* Text is a sequence of tokens.  A token is a piece of text that no       *)
(* operation of the program splits: a word, one punctuation character, the *)
(* line terminator "\n", or a piece of markup a template emits.            *)
(***************************************************************************)
EXTENDS Integers, Sequences, FiniteSets, TLC

VARIABLES
    \* the pure-function harnesses (get_href, _process_header, _process_lines)
    request_query,     \* request.query: ordered mapping, a sequence of [k, v]
    href_key,          \* get_href's key argument
    href_val,          \* get_href's val argument
    output,            \* the `output` argument of _process_header/_process_lines
    result,            \* the value the function returned
    phase,             \* "input" before the call, "done" after it
    \* one CProfileVStats object driven operation by operation
    capture,           \* the object: [output_file, flawed, stream]
    unread,            \* history: the text printed since the last read()
    last_op,           \* the last operation called on the object
    last_value,        \* what the last read() returned
    expected,          \* history: `unread` before the last read(), after the two passes
    returned,          \* history: the tags of all text any read() returned
    op_count,          \* number of operations called so far
    \* the CProfileV process
    pc,                \* "new", "serving" or "crashed"
    watch_arg,         \* the -w argument: "none", "notdir" or "dir"
    cprofile_output,   \* self.cprofile_output: the file list of the command line
    watch_directory,   \* self.watch_directory: "W" or "None"
    has_stats_obj,     \* whether the attributes stats_obj/unsupported_files exist
    stats_obj,         \* self.stats_obj: name -> CProfileVStats
    unsupported_files, \* self.unsupported_files: a list of names
    fs,                \* the file system: directory -> name -> kind of entry
    cwd,               \* the working directory of the process
    inflight,          \* requests sent by clients and not handled yet
    response,          \* the last response the server sent
    next_id,           \* the next request's number
    fs_changed         \* history: whether the watched directory changed since the start

pure_vars == <<request_query, href_key, href_val, output, result, phase>>

adapter_vars == <<capture, unread, last_op, last_value, expected, returned, op_count>>

server_vars == <<pc, watch_arg, cprofile_output, watch_directory, has_stats_obj,
                 stats_obj, unsupported_files, fs, cwd, inflight, response,
                 next_id, fs_changed>>

vars == <<pure_vars, adapter_vars, server_vars>>

----------------------------------------------------------------------------
(* Bounds *)

\* longest query value, in tokens, the get_href harness enumerates
MaxValLen == 3

\* longest buffer, in tokens, the _process_header harness enumerates
MaxHeaderLen == 3

\* longest buffer, in tokens, the _process_lines harness enumerates
MaxLinesLen == 5

\* number of operations called on the CProfileVStats object
MaxOps == 4

\* number of requests clients send
MaxRequests == 3

\* number of requests in flight at once
MaxInflight == 2

----------------------------------------------------------------------------
(* Sequence helpers *)

RECURSIVE Flatten(_)
\* ''.join(parts)
Flatten(parts) ==
    IF parts = <<>> THEN <<>> ELSE Head(parts) \o Flatten(Tail(parts))

\* the index of the first position of s from `from` on that holds tok, 0 if none
RECURSIVE IndexFrom(_, _, _)
IndexFrom(s, tok, from) ==
    IF from > Len(s) THEN 0
    ELSE IF s[from] = tok THEN from
    ELSE IndexFrom(s, tok, from + 1)

\* the index of the last position of s that holds tok, 0 if none
RECURSIVE LastIndex(_, _, _)
LastIndex(s, tok, upto) ==
    IF upto < 1 THEN 0
    ELSE IF s[upto] = tok THEN upto
    ELSE LastIndex(s, tok, upto - 1)

Contains(s, tok) == \E i \in 1..Len(s) : s[i] = tok

\* how often tok occurs in s
Count(s, tok) == Cardinality({i \in 1..Len(s) : s[i] = tok})

\* all sequences over S of length at most n
SeqsUpTo(S, n) == UNION {[1..m -> S] : m \in 0..n}

----------------------------------------------------------------------------
(* bottle's template(): {{ x }} is HTML-escaped, {{ !x }} is not *)

html_escape_token(tok) ==
    CASE tok = "&" -> "&amp;"
      [] tok = "<" -> "&lt;"
      [] tok = ">" -> "&gt;"
      [] tok = "\"" -> "&quot;"
      [] tok = "'" -> "&#039;"
      [] tok = "<a href='" -> "&lt;a href=&#039;"
      [] tok = "'>" -> "&#039;&gt;"
      [] tok = "</a>" -> "&lt;/a&gt;"
      [] OTHER -> tok

html_escape(s) == [i \in 1..Len(s) |-> html_escape_token(s[i])]

----------------------------------------------------------------------------
(* get_href, src/cprofilev.py:70-76 *)

SORT_KEY == "sort"
FUNC_NAME_KEY == "func_name"

QueryKeys(query) == {query[i].k : i \in 1..Len(query)}

\* query[key] = val on a copy of the mapping: an existing key keeps its place
SetItem(query, key, val) ==
    IF key \in QueryKeys(query)
    THEN [i \in 1..Len(query) |->
            IF query[i].k = key THEN [k |-> key, v |-> val] ELSE query[i]]
    ELSE Append(query, [k |-> key, v |-> val])

\* '%s=%s&' % (key, query[key])
HrefPair(item) == <<item.k, "=">> \o item.v \o <<"&">>

get_href(query, key, val) ==
    LET copy == SetItem(query, key, val)
        href == <<"?">> \o Flatten([i \in 1..Len(copy) |-> HrefPair(copy[i])])
    IN  SubSeq(href, 1, Len(href) - 1)

----------------------------------------------------------------------------
(* CProfileVStats._process_header and _process_lines, src/cprofilev.py:98-145 *)

NL == "\n"

IGNORE_FUNC_NAMES == {<<"function">>, <<>>}

HEADER_LINE_REGEX == {"ncalls", "tottime", "cumtime"}

DEFAULT_SORT_ARG == "cumulative"

\* the items of the SORT_ARGS literal, in the order the literal gives them
SORT_ARGS ==
    << [key |-> "ncalls",   val |-> "calls"],
       [key |-> "tottime",  val |-> "time"],
       [key |-> "cumtime",  val |-> "cumulative"],
       [key |-> "filename", val |-> "module"],
       [key |-> "lineno",   val |-> "nfl"] >>

SortArgKeys == {SORT_ARGS[i].key : i \in 1..Len(SORT_ARGS)}

SortArgVal(key) == SORT_ARGS[CHOOSE i \in 1..Len(SORT_ARGS) : SORT_ARGS[i].key = key].val

\* the sort keys pstats' sort_stats accepts that the header links use
ValidSortKeys == {SORT_ARGS[i].val : i \in 1..Len(SORT_ARGS)}

RECURSIVE splitlines(_)
\* output.splitlines(True): each line keeps its terminator
splitlines(s) ==
    IF s = <<>> THEN <<>>
    ELSE LET i == IndexFrom(s, NL, 1)
         IN  IF i = 0 THEN <<s>>
             ELSE <<SubSeq(s, 1, i)>> \o splitlines(SubSeq(s, i + 1, Len(s)))

\* line.replace(key, url_link): every occurrence, left to right, the inserted
\* text not scanned again
str_replace(line, key, url_link) ==
    Flatten([i \in 1..Len(line) |-> IF line[i] = key THEN url_link ELSE <<line[i]>>])

\* template("<a href='{{ url }}'>{{ key }}</a>", url=get_href(SORT_KEY, val), key=key)
HeaderLink(query, key, val) ==
    <<"<a href='">> \o html_escape(get_href(query, SORT_KEY, <<val>>))
        \o <<"'>">> \o html_escape(<<key>>) \o <<"</a>">>

RECURSIVE ReplaceSortArgs(_, _, _)
\* the loop over SORT_ARGS.items(): one replace after the other on the same line
ReplaceSortArgs(line, query, n) ==
    IF n > Len(SORT_ARGS) THEN line
    ELSE ReplaceSortArgs(
            str_replace(line, SORT_ARGS[n].key,
                        HeaderLink(query, SORT_ARGS[n].key, SORT_ARGS[n].val)),
            query, n + 1)

\* re.search(HEADER_LINE_REGEX, line)
IsHeaderLine(line) == \E i \in 1..Len(line) : line[i] \in HEADER_LINE_REGEX

\* the index of the first header line, 0 if there is none
FirstHeader(lines) ==
    IF \E i \in 1..Len(lines) : IsHeaderLine(lines[i])
    THEN CHOOSE i \in 1..Len(lines) :
            /\ IsHeaderLine(lines[i])
            /\ \A j \in 1..(i - 1) : ~IsHeaderLine(lines[j])
    ELSE 0

process_header(out, query) ==
    LET lines == splitlines(out)
        idx == FirstHeader(lines)
    IN  Flatten([i \in 1..Len(lines) |->
            IF i = idx THEN ReplaceSortArgs(lines[i], query, 1) ELSE lines[i]])

\* the line without its terminator: '.' does not match it and '$' matches before it
LineBody(line) ==
    IF line # <<>> /\ line[Len(line)] = NL THEN SubSeq(line, 1, Len(line) - 1) ELSE line

\* re.search(STATS_LINE_REGEX, line) with STATS_LINE_REGEX = r'(.*)\((.*)\)$':
\* the first group is greedy, so the "(" that opens the second group is the
\* last "(" of the line.  0 when the line does not match.
StatsLineOpen(line) ==
    LET body == LineBody(line)
    IN  IF body # <<>> /\ body[Len(body)] = ")"
        THEN LastIndex(body, "(", Len(body) - 1)
        ELSE 0

\* match.group(1)
StatsLinePrefix(line) == SubSeq(LineBody(line), 1, StatsLineOpen(line) - 1)

\* match.group(2)
StatsLineFuncName(line) ==
    SubSeq(LineBody(line), StatsLineOpen(line) + 1, Len(LineBody(line)) - 1)

\* template("<a href='{{ url }}'>{{ func_name }}</a>", url=get_href(FUNC_NAME_KEY, func_name), ...)
FuncLink(query, func_name) ==
    <<"<a href='">> \o html_escape(get_href(query, FUNC_NAME_KEY, func_name))
        \o <<"'>">> \o html_escape(func_name) \o <<"</a>">>

\* one iteration of the loop of _process_lines
ProcessLine(line, query) ==
    IF StatsLineOpen(line) # 0 /\ StatsLineFuncName(line) \notin IGNORE_FUNC_NAMES
    THEN html_escape(StatsLinePrefix(line)) \o <<"(">>
            \o FuncLink(query, StatsLineFuncName(line)) \o <<")", NL>>
    ELSE line

process_lines(out, query) ==
    LET lines == splitlines(out)
    IN  Flatten([i \in 1..Len(lines) |-> ProcessLine(lines[i], query)])

----------------------------------------------------------------------------
(* The statistics engine (pstats.Stats) as the program uses it.  The text a   *)
(* print writes starts with a tag that stands for what is particular to that  *)
(* print (its time stamp, restriction and rows).                              *)

TagNames == <<"#1", "#2", "#3", "#4", "#5", "#6", "#7", "#8", "#9">>

Tags == {TagNames[i] : i \in 1..Len(TagNames)}

\* the tags of the prints whose text occurs in s
TagsIn(s) == {s[i] : i \in {j \in 1..Len(s) : s[j] \in Tags}}

\* Stats.sort_stats raises KeyError for a key it does not know
PstatsSortKeys == ValidSortKeys \cup {"stdname", "pcalls", "line", "name", "file"}

\* what Stats.print_stats writes: a title, the header row, one row
PrintStatsText(tag) ==
    <<tag, NL, "ncalls", "(", "function", ")", NL, "1", "(", "f", ")", NL>>

\* what Stats.print_callers/print_callees writes: a title, the header row, one row
PrintCallText(tag) ==
    <<tag, NL, "ncalls", NL, "(", "f", ")", "<-", "(", "g", ")", NL>>

\* what print_callers/print_callees has written when a row of a flawed capture
\* (one that loads, with a caller entry that is no 4-tuple) makes it raise
PrintCallPartial(tag) ==
    <<tag, NL, "ncalls", NL, "(", "f", ")", "<-">>

----------------------------------------------------------------------------
(* CProfileVStats, src/cprofilev.py:79-162 *)

\* a return value or an exception: [raised, cap] and, for read, [value]
Returned(cap) == [raised |-> FALSE, cap |-> cap]

Raised(cap) == [raised |-> TRUE, cap |-> cap]

reset_stream_keeps(cap) == cap

\* self.obj.stream = StringIO()
reset_stream(cap) == [cap EXCEPT !.stream = <<>>]

\* CProfileVStats(output_file) for a file Stats() can load
NewStats(output_file, flawed) ==
    reset_stream([output_file |-> output_file, flawed |-> flawed, stream |-> <<>>])

\* sort(sort=''): sort_stats on the key or the default
sort(cap, sort_arg) ==
    LET key == IF sort_arg = "" THEN DEFAULT_SORT_ARG ELSE sort_arg
    IN  IF key \in PstatsSortKeys THEN Returned(cap) ELSE Raised(cap)

\* show(restriction=''): print_stats into the stream
show(cap, restriction, tag) ==
    Returned([cap EXCEPT !.stream = @ \o PrintStatsText(tag)])

\* show_callers(func_name): print_callers into the stream
show_callers(cap, func_name, tag) ==
    IF cap.flawed
    THEN Raised([cap EXCEPT !.stream = @ \o PrintCallPartial(tag)])
    ELSE Returned([cap EXCEPT !.stream = @ \o PrintCallText(tag)])

\* show_callees(func_name): print_callees into the stream
show_callees(cap, func_name, tag) ==
    IF cap.flawed
    THEN Raised([cap EXCEPT !.stream = @ \o PrintCallPartial(tag)])
    ELSE Returned([cap EXCEPT !.stream = @ \o PrintCallText(tag)])

\* read(): the stream's text after the two passes; the stream is reset
read(cap, query) ==
    [raised |-> FALSE,
     cap |-> reset_stream(cap),
     value |-> process_lines(process_header(cap.stream, query), query)]

----------------------------------------------------------------------------
(* Values of the variables a specification does not use *)

IdlePure ==
    /\ request_query = <<>>
    /\ href_key = SORT_KEY
    /\ href_val = <<>>
    /\ output = <<>>
    /\ result = <<>>
    /\ phase = "idle"

IdleAdapter ==
    /\ capture = NewStats("a", FALSE)
    /\ unread = <<>>
    /\ last_op = "none"
    /\ last_value = <<>>
    /\ expected = <<>>
    /\ returned = <<>>
    /\ op_count = 0

NoResponse ==
    [id |-> 0, kind |-> "none", name |-> "", status |-> "none", exc |-> "",
     lookup |-> "none", overlap |-> FALSE, printed |-> FALSE,
     stats |-> <<>>, callers |-> <<>>, callees |-> <<>>,
     links |-> {}, unsupported |-> <<>>]

Names == {"a", "b"}

\* what a directory holds under a name: nothing, a sub-directory, or a regular
\* file: a capture, a capture with a flawed caller entry, something else
Kinds == {"absent", "dir", "good", "flawed", "corrupt"}

Dirs == {"W", "C"}

EmptyDir == [n \in Names |-> "absent"]

IdleServer ==
    /\ pc = "idle"
    /\ watch_arg = "none"
    /\ cprofile_output = <<>>
    /\ watch_directory = "None"
    /\ has_stats_obj = FALSE
    /\ stats_obj = <<>>
    /\ unsupported_files = <<>>
    /\ fs = [d \in Dirs |-> EmptyDir]
    /\ cwd = "W"
    /\ inflight = {}
    /\ response = NoResponse
    /\ next_id = 1
    /\ fs_changed = FALSE

----------------------------------------------------------------------------
(* The get_href harness: every query mapping and override of a small set *)

HrefKeys == {SORT_KEY, FUNC_NAME_KEY}

HrefValueTokens == {"time", "&", "="}

HrefValues == SeqsUpTo(HrefValueTokens, MaxValLen) \ {<<>>}

StaleValue == <<"a", "&", "sort", "=", "time">>

\* ordered mappings with distinct keys
HrefQueries ==
    {<<>>}
    \cup {<<[k |-> key, v |-> val]>> :
            key \in HrefKeys, val \in {<<"time">>, <<"bar">>, StaleValue}}
    \cup {<<[k |-> FUNC_NAME_KEY, v |-> v1], [k |-> SORT_KEY, v |-> v2]>> :
            v1 \in {<<"bar">>, StaleValue}, v2 \in HrefValues}

InitHref ==
    /\ request_query \in HrefQueries
    /\ href_key \in HrefKeys
    /\ href_val \in {<<"calls">>, <<"time">>}
    /\ output = <<>>
    /\ result = <<>>
    /\ phase = "input"
    /\ IdleAdapter
    /\ IdleServer

CallGetHref ==
    /\ phase = "input"
    /\ result' = get_href(request_query, href_key, href_val)
    /\ phase' = "done"
    /\ UNCHANGED <<request_query, href_key, href_val, output>>
    /\ UNCHANGED <<adapter_vars, server_vars>>

NextHref == CallGetHref

SpecHref == InitHref /\ [][NextHref]_vars

----------------------------------------------------------------------------
(* The _process_header harness *)

HeaderTokens == SortArgKeys \cup {"pid", NL}

HeaderQueries ==
    { <<>>,
      <<[k |-> SORT_KEY, v |-> <<"time">>]>>,
      <<[k |-> FUNC_NAME_KEY, v |-> <<"bar">>], [k |-> SORT_KEY, v |-> <<"time">>]>>,
      <<[k |-> FUNC_NAME_KEY, v |-> <<"filename">>]>> }

InitHeader ==
    /\ request_query \in HeaderQueries
    /\ href_key = SORT_KEY
    /\ href_val = <<>>
    /\ output \in SeqsUpTo(HeaderTokens, MaxHeaderLen)
    /\ result = <<>>
    /\ phase = "input"
    /\ IdleAdapter
    /\ IdleServer

CallProcessHeader ==
    /\ phase = "input"
    /\ result' = process_header(output, request_query)
    /\ phase' = "done"
    /\ UNCHANGED <<request_query, href_key, href_val, output>>
    /\ UNCHANGED <<adapter_vars, server_vars>>

NextHeader == CallProcessHeader

SpecHeader == InitHeader /\ [][NextHeader]_vars

----------------------------------------------------------------------------
(* The _process_lines harness *)

LinesTokens == {"(", ")", "f", "function", NL}

LinesQueries == {<<>>, <<[k |-> SORT_KEY, v |-> <<"time">>]>>}

InitLines ==
    /\ request_query \in LinesQueries
    /\ href_key = FUNC_NAME_KEY
    /\ href_val = <<>>
    /\ output \in SeqsUpTo(LinesTokens, MaxLinesLen)
    /\ result = <<>>
    /\ phase = "input"
    /\ IdleAdapter
    /\ IdleServer

CallProcessLines ==
    /\ phase = "input"
    /\ result' = process_lines(output, request_query)
    /\ phase' = "done"
    /\ UNCHANGED <<request_query, href_key, href_val, output>>
    /\ UNCHANGED <<adapter_vars, server_vars>>

NextLines == CallProcessLines

SpecLines == InitLines /\ [][NextLines]_vars

----------------------------------------------------------------------------
(* One CProfileVStats object, its operations called one after another *)

AdapterQueries == {<<>>, <<[k |-> FUNC_NAME_KEY, v |-> <<"f">>]>>}

InitAdapter ==
    /\ IdlePure
    /\ IdleServer
    /\ \E flawed \in BOOLEAN : capture = NewStats("a", flawed)
    /\ unread = <<>>
    /\ last_op = "none"
    /\ last_value = <<>>
    /\ expected = <<>>
    /\ returned = <<>>
    /\ op_count = 0

\* an operation that writes (or fails to) and returns no text
AdapterStep(op, r, text) ==
    /\ capture' = r.cap
    /\ unread' = unread \o text
    /\ last_op' = op
    /\ op_count' = op_count + 1
    /\ UNCHANGED <<last_value, expected, returned>>
    /\ UNCHANGED <<pure_vars, server_vars>>

AdapterSort ==
    /\ op_count < MaxOps
    /\ \E sort_arg \in {"", "calls", "bogus"} :
          AdapterStep("sort", sort(capture, sort_arg), <<>>)

AdapterShow ==
    /\ op_count < MaxOps
    /\ LET r == show(capture, "", TagNames[op_count + 1])
       IN  AdapterStep("show", r, PrintStatsText(TagNames[op_count + 1]))

AdapterShowCallers ==
    /\ op_count < MaxOps
    /\ LET tag == TagNames[op_count + 1]
           r == show_callers(capture, <<"f">>, tag)
       IN  AdapterStep("show_callers", r,
                       IF r.raised THEN PrintCallPartial(tag) ELSE PrintCallText(tag))

AdapterShowCallees ==
    /\ op_count < MaxOps
    /\ LET tag == TagNames[op_count + 1]
           r == show_callees(capture, <<"f">>, tag)
       IN  AdapterStep("show_callees", r,
                       IF r.raised THEN PrintCallPartial(tag) ELSE PrintCallText(tag))

AdapterRead ==
    /\ op_count < MaxOps
    /\ \E query \in AdapterQueries :
          LET r == read(capture, query)
          IN  /\ capture' = r.cap
              /\ last_value' = r.value
              /\ expected' = process_lines(process_header(unread, query), query)
              /\ returned' = returned \o SelectSeq(r.value, LAMBDA t : t \in Tags)
              /\ unread' = <<>>
              /\ last_op' = "read"
              /\ op_count' = op_count + 1
              /\ UNCHANGED <<pure_vars, server_vars>>

NextAdapter ==
    \/ AdapterSort
    \/ AdapterShow
    \/ AdapterShowCallers
    \/ AdapterShowCallees
    \/ AdapterRead

SpecAdapter == InitAdapter /\ [][NextAdapter]_vars

----------------------------------------------------------------------------
(* CProfileV, src/cprofilev.py:165-251 *)

\* the order os.listdir and the command line give the names in
NameOrder == <<"a", "b">>

RegularKinds == {"good", "flawed", "corrupt"}

\* os.listdir(self.watch_directory)
listdir(dir) == SelectSeq(NameOrder, LAMBDA n : fs[dir][n] # "absent")

\* os.path.isfile(d): d is a bare name, so it is looked up in the working directory
isfile(d) == fs[cwd][d] \in RegularKinds

\* whether Stats(output_file) loads: the name is opened in the working directory
StatsLoads(output_file) == fs[cwd][output_file] \in {"good", "flawed"}

\* cprofile_output_files of load_stats_objects
CandidateFiles ==
    IF watch_directory # "None"
    THEN SelectSeq(listdir(watch_directory), isfile)
    ELSE cprofile_output

EmptyMap == [n \in {} |-> NewStats("a", FALSE)]

MapPut(map, name, cap) ==
    [n \in DOMAIN map \cup {name} |-> IF n = name THEN cap ELSE map[n]]

LoadOneDropsFailure(reg, name) ==
    IF StatsLoads(name)
    THEN [reg EXCEPT !.stats_obj = MapPut(@, name, NewStats(name, fs[cwd][name] = "flawed"))]
    ELSE reg

\* the try/except/else of the loop of load_stats_objects
LoadOne(reg, name) ==
    IF StatsLoads(name)
    THEN [reg EXCEPT !.stats_obj = MapPut(@, name, NewStats(name, fs[cwd][name] = "flawed"))]
    ELSE [reg EXCEPT !.unsupported_files = Append(@, name)]

RECURSIVE LoadLoop(_, _)
LoadLoop(reg, files) ==
    IF files = <<>> THEN reg ELSE LoadLoop(LoadOne(reg, Head(files)), Tail(files))

\* load_stats_objects: both collections start empty
load_stats_objects ==
    LoadLoop([stats_obj |-> EmptyMap, unsupported_files |-> <<>>], CandidateFiles)

\* the request.query of a request: the parameters the client gave
QueryOf(req) ==
    (IF req.func_name = <<>> THEN <<>> ELSE <<[k |-> FUNC_NAME_KEY, v |-> req.func_name]>>)
    \o (IF req.sort = "" THEN <<>> ELSE <<[k |-> SORT_KEY, v |-> <<req.sort>>]>>)

\* what a handler leaves: the capture it worked on (if any) and the response
Fault(req, exc, lookup, touched, overlap) ==
    [NoResponse EXCEPT !.id = req.id, !.kind = req.kind, !.name = req.name,
                       !.status = "fault", !.exc = exc, !.lookup = lookup,
                       !.printed = touched, !.overlap = overlap]

Page(req, overlap, stats, callers, callees) ==
    [NoResponse EXCEPT !.id = req.id, !.kind = req.kind, !.name = req.name,
                       !.status = "ok", !.lookup = "found", !.printed = TRUE,
                       !.overlap = overlap, !.stats = stats,
                       !.callers = callers, !.callees = callees]

\* route_handler on a capture that is in self.stats_obj: [cap, resp]
RenderCapture(req, cap, overlap) ==
    LET query == QueryOf(req)
        tag == TagNames[req.id]
        s1 == sort(cap, req.sort)
    IN  IF s1.raised
        THEN [cap |-> s1.cap, resp |-> Fault(req, "KeyError", "found", TRUE, overlap)]
        ELSE
        LET r1 == read(show(s1.cap, req.func_name, tag).cap, query)
        IN  IF req.func_name = <<>>
            THEN [cap |-> r1.cap, resp |-> Page(req, overlap, r1.value, <<>>, <<>>)]
            ELSE
            LET p2 == show_callers(sort(r1.cap, req.sort).cap, req.func_name, tag)
            IN  IF p2.raised
                THEN [cap |-> p2.cap,
                      resp |-> Fault(req, "ValueError", "found", TRUE, overlap)]
                ELSE
                LET r2 == read(p2.cap, query)
                    p3 == show_callees(sort(r2.cap, req.sort).cap, req.func_name, tag)
                IN  IF p3.raised
                    THEN [cap |-> p3.cap,
                          resp |-> Fault(req, "ValueError", "found", TRUE, overlap)]
                    ELSE LET r3 == read(p3.cap, query)
                         IN  [cap |-> r3.cap,
                              resp |-> Page(req, overlap, r1.value, r2.value, r3.value)]

\* CProfileV.__init__: os.path.isdir(None) raises TypeError
Construct ==
    /\ pc = "new"
    /\ IF watch_arg = "none"
       THEN /\ pc' = "crashed"
            /\ UNCHANGED watch_directory
       ELSE /\ pc' = "serving"
            /\ watch_directory' = IF watch_arg = "dir" THEN "W" ELSE "None"
    /\ UNCHANGED <<watch_arg, cprofile_output, has_stats_obj, stats_obj,
                   unsupported_files, fs, cwd, inflight, response, next_id, fs_changed>>
    /\ UNCHANGED <<pure_vars, adapter_vars>>

\* the requests clients send: the index page, and the detail page of capture "a"
\* plain, with a function selected, and with a sort key pstats does not know;
\* `overlap`: whether the request was in flight together with another detail
\* request for the same capture
Requests(id) ==
    {[id |-> id, kind |-> "index", name |-> "", func_name |-> <<>>, sort |-> "",
      overlap |-> FALSE]}
    \cup {[id |-> id, kind |-> "detail", name |-> "a", func_name |-> q.f, sort |-> q.s,
           overlap |-> FALSE] :
            q \in {[f |-> <<>>, s |-> ""], [f |-> <<"f">>, s |-> ""],
                   [f |-> <<>>, s |-> "bogus"]}}

SameCapture(r1, r2) == r1.kind = "detail" /\ r2.kind = "detail" /\ r1.name = r2.name

\* a client sends a request; the server (start: app.run with bottle's default,
\* single-threaded server) takes it up when no other handler runs
Send ==
    /\ pc = "serving"
    /\ next_id <= MaxRequests
    /\ Cardinality(inflight) < MaxInflight
    /\ \E req \in Requests(next_id) :
          inflight' =
              {[r EXCEPT !.overlap = @ \/ SameCapture(r, req)] : r \in inflight}
              \cup {[req EXCEPT !.overlap = \E r \in inflight : SameCapture(r, req)]}
    /\ next_id' = next_id + 1
    /\ UNCHANGED <<pc, watch_arg, cprofile_output, watch_directory, has_stats_obj,
                   stats_obj, unsupported_files, fs, cwd, response, fs_changed>>
    /\ UNCHANGED <<pure_vars, adapter_vars>>

\* CProfileV.index
Index ==
    /\ pc = "serving"
    /\ \E req \in inflight :
          /\ req.kind = "index"
          /\ inflight' = inflight \ {req}
          /\ IF watch_directory # "None"
             THEN /\ has_stats_obj' = TRUE
                  /\ stats_obj' = load_stats_objects.stats_obj
                  /\ unsupported_files' = load_stats_objects.unsupported_files
             ELSE UNCHANGED <<has_stats_obj, stats_obj, unsupported_files>>
          /\ response' =
                IF has_stats_obj'
                THEN [NoResponse EXCEPT !.id = req.id, !.kind = "index", !.status = "ok",
                                        !.links = DOMAIN stats_obj',
                                        !.unsupported = unsupported_files']
                ELSE Fault(req, "AttributeError", "none", FALSE, FALSE)
    /\ UNCHANGED <<pc, watch_arg, cprofile_output, watch_directory, fs, cwd,
                   next_id, fs_changed>>
    /\ UNCHANGED <<pure_vars, adapter_vars>>

\* CProfileV.route_handler
RouteHandler ==
    /\ pc = "serving"
    /\ \E req \in inflight :
          /\ req.kind = "detail"
          /\ inflight' = inflight \ {req}
          /\ LET overlap == req.overlap
             IN  IF ~has_stats_obj
                 THEN /\ response' = Fault(req, "AttributeError", "missing", FALSE, overlap)
                      /\ UNCHANGED stats_obj
                 ELSE IF req.name \notin DOMAIN stats_obj
                 THEN /\ response' = Fault(req, "KeyError", "missing", FALSE, overlap)
                      /\ UNCHANGED stats_obj
                 ELSE LET done == RenderCapture(req, stats_obj[req.name], overlap)
                      IN  /\ response' = done.resp
                          /\ stats_obj' = [stats_obj EXCEPT ![req.name] = done.cap]
    /\ UNCHANGED <<pc, watch_arg, cprofile_output, watch_directory, has_stats_obj,
                   unsupported_files, fs, cwd, next_id, fs_changed>>
    /\ UNCHANGED <<pure_vars, adapter_vars>>

\* a profiling run writes a capture into the watched directory, or a user removes an entry
FsChange ==
    /\ pc = "serving"
    /\ \E n \in Names, kind \in {"absent", "good"} :
          /\ fs["W"][n] # kind
          /\ fs' = [fs EXCEPT !["W"][n] = kind]
    /\ fs_changed' = TRUE
    /\ UNCHANGED <<pc, watch_arg, cprofile_output, watch_directory, has_stats_obj,
                   stats_obj, unsupported_files, cwd, inflight, response, next_id>>
    /\ UNCHANGED <<pure_vars, adapter_vars>>

\* the command lines and file systems the server is started with
Configs ==
    { [watch_arg |-> "none",   files |-> <<"a">>],
      [watch_arg |-> "notdir", files |-> <<"a", "b">>],
      [watch_arg |-> "dir",    files |-> <<>>] }

Init ==
    /\ IdlePure
    /\ IdleAdapter
    /\ pc = "new"
    /\ \E cfg \in Configs : watch_arg = cfg.watch_arg /\ cprofile_output = cfg.files
    /\ watch_directory = "None"
    /\ has_stats_obj = FALSE
    /\ stats_obj = EmptyMap
    /\ unsupported_files = <<>>
    /\ cwd \in Dirs
    /\ fs \in [Dirs -> [Names -> Kinds]]
    \* only capture "a" is requested, so a flaw of "b" would never show
    /\ fs["W"]["b"] # "flawed"
    \* the file system is read only by load_stats_objects, which only a watched
    \* directory lets run: without one, one file system stands for all
    /\ IF watch_arg = "dir"
       THEN IF cwd = "C" THEN fs["C"] \in {EmptyDir, [n \in Names |-> "good"]}
                         ELSE fs["C"] = EmptyDir
       ELSE cwd = "W" /\ fs = [d \in Dirs |-> IF d = "W" THEN [n \in Names |-> "good"] ELSE EmptyDir]
    /\ inflight = {}
    /\ response = NoResponse
    /\ next_id = 1
    /\ fs_changed = FALSE

Next ==
    \/ Construct
    \/ Send
    \/ Index
    \/ RouteHandler
    \/ FsChange

Spec == Init /\ [][Next]_vars

----------------------------------------------------------------------------
(* Claims *)

Range(seq) == {seq[i] : i \in 1..Len(seq)}

RECURSIVE SplitOn(_, _)
\* s.split(tok)
SplitOn(s, tok) ==
    LET i == IndexFrom(s, tok, 1)
    IN  IF i = 0 THEN <<s>>
        ELSE <<SubSeq(s, 1, i - 1)>> \o SplitOn(SubSeq(s, i + 1, Len(s)), tok)

\* a "key=value" piece of a query string, as a client reading the link splits it
ParsePair(piece) ==
    IF Len(piece) >= 2 /\ piece[2] = "="
    THEN [k |-> piece[1], v |-> SubSeq(piece, 3, Len(piece))]
    ELSE [k |-> "", v |-> piece]

QueryValue(query, key) == query[CHOOSE i \in 1..Len(query) : query[i].k = key].v

\* C1: a detail request for a name that is not a key of the loaded map gets the
\* not-found outcome: no unhandled fault, no sort/show/read on any capture, no table.
C1_UnknownCaptureNotFound ==
    (response.kind = "detail" /\ response.lookup = "missing")
        => /\ response.status = "not_found"
           /\ ~response.printed
           /\ response.stats = <<>>

\* C2: a detail request that was in flight together with another request for the
\* same capture returns, in each of its three reads, its own text and only its own.
C2_NoBleedBetweenRequests ==
    (response.kind = "detail" /\ response.overlap /\ response.status = "ok")
        => /\ TagsIn(response.stats) = {TagNames[response.id]}
           /\ TagsIn(response.callers) \subseteq {TagNames[response.id]}
           /\ TagsIn(response.callees) \subseteq {TagNames[response.id]}

\* C3: a run of load leaves every candidate source of that run in exactly one of
\* the loaded map and the unsupported list: the two are disjoint, their union is
\* the candidate set, a source Stats() cannot load is in the unsupported list, once,
\* a source it can load is in the map, and every capture of the map is a new one.
C3_RegistryPartition ==
    [][(response'.id # response.id /\ response'.kind = "index"
            /\ watch_directory # "None")
        => LET cands == Range(CandidateFiles)
               loaded == DOMAIN stats_obj'
               failed == Range(unsupported_files')
           IN  /\ has_stats_obj'
               /\ loaded \cap failed = {}
               /\ loaded \cup failed = cands
               /\ \A n \in cands : (n \in failed) <=> ~StatsLoads(n)
               /\ Len(unsupported_files') = Cardinality(failed)
               /\ \A n \in loaded : stats_obj'[n] = NewStats(n, fs[cwd][n] = "flawed")
               /\ response'.links = loaded
               /\ response'.unsupported = unsupported_files'
      ]_vars

\* C3 witness: a load that followed a change of the directory has filed one
\* source as loaded and another as unsupported.
C3_Witness ==
    /\ response.kind = "index"
    /\ response.id >= 2
    /\ fs_changed
    /\ DOMAIN stats_obj # {}
    /\ unsupported_files # <<>>

\* C4: every read() returns the text printed since the previous read() (or since
\* construction) after the two passes and leaves the stream empty; no printed text
\* is returned by two reads; a read() with nothing printed returns the empty string.
C4_ReadDrainsStream ==
    /\ \A tag \in Tags : Count(returned, tag) <= 1
    /\ last_op = "read"
          => /\ last_value = expected
             /\ capture.stream = <<>>
             /\ (unread = <<>> /\ expected = <<>> => last_value = <<>>)

\* C4 witness: two prints were read, and a further read() with nothing printed
\* returned the empty string.
C4_Witness ==
    /\ last_op = "read"
    /\ Len(returned) >= 2
    /\ last_value = <<>>
    /\ expected = <<>>

\* C5: with an explicit file list the registry is loaded once, at startup, before
\* any request: the collections exist and hold the startup list as soon as the
\* server serves; with a watched directory every index request answers from a load.
C5_ReloadPolicy ==
    /\ (pc = "serving" /\ watch_directory = "None")
          => /\ has_stats_obj
             /\ DOMAIN stats_obj \cup Range(unsupported_files) = Range(cprofile_output)
    /\ (watch_directory # "None" /\ response.kind = "index")
          => response.status = "ok"

\* C6: with a watched directory, the candidates of a load are the regular files
\* directly inside the watched directory, whatever the working directory is.
C6_CandidatesAreRegularFiles ==
    [][(response'.id # response.id /\ response'.kind = "index"
            /\ watch_directory # "None")
        => DOMAIN stats_obj' \cup Range(unsupported_files')
              = {n \in Names : fs[watch_directory][n] \in RegularKinds}
      ]_vars

\* C7: the link starts with "?" and holds exactly one key=value pair, joined by
\* "&", for each key of the query and the overridden key: the overridden key with
\* the new value, every other key with its value of the query.
C7_QueryPreserved ==
    phase = "done"
        => LET pieces == SplitOn(Tail(result), "&")
               pairs == [i \in 1..Len(pieces) |-> ParsePair(pieces[i])]
               wanted == QueryKeys(request_query) \cup {href_key}
           IN  /\ result # <<>>
               /\ Head(result) = "?"
               /\ Len(pairs) = Cardinality(wanted)
               /\ \A key \in wanted :
                     \E i \in 1..Len(pairs) :
                        /\ pairs[i].k = key
                        /\ pairs[i].v = IF key = href_key THEN href_val
                                        ELSE QueryValue(request_query, key)

\* C8: a detail request that fails (sort rejects the key, or a print fails after
\* writing part of its output) leaves the capture's stream empty, and a request
\* that succeeds returns only text printed for it.
C8_FailureLeavesStreamEmpty ==
    /\ (response.kind = "detail" /\ response.status = "fault"
            /\ response.lookup = "found" /\ response.name \in DOMAIN stats_obj)
          => stats_obj[response.name].stream = <<>>
    /\ (response.kind = "detail" /\ response.status = "ok")
          => TagsIn(response.stats \o response.callers \o response.callees)
                = {TagNames[response.id]}

\* what the header pass should make of a header line: every column token becomes
\* its own anchor, built for that column alone
ExpectedHeaderLine(line, query) ==
    Flatten([i \in 1..Len(line) |->
        IF line[i] \in SortArgKeys
        THEN HeaderLink(query, line[i], SortArgVal(line[i]))
        ELSE <<line[i]>>])

\* C9: the header pass rewrites only the first line that holds ncalls, tottime or
\* cumtime; on it each column token becomes exactly one anchor whose target sets
\* sort to the column's key, and no replacement alters another column's anchor.
C9_HeaderAnchors ==
    phase = "done"
        => LET lines == splitlines(output)
               idx == FirstHeader(lines)
           IN  result = Flatten([i \in 1..Len(lines) |->
                   IF i = idx THEN ExpectedHeaderLine(lines[i], request_query)
                   ELSE lines[i]])

RECURSIVE MatchingOpen(_, _, _)
\* the index of the "(" that balances the ")" at the end of body (scanning from
\* position i towards the start with `depth` groups open), 0 if there is none
MatchingOpen(body, i, depth) ==
    IF i < 1 THEN 0
    ELSE IF body[i] = ")" THEN MatchingOpen(body, i - 1, depth + 1)
    ELSE IF body[i] = "(" THEN (IF depth = 1 THEN i ELSE MatchingOpen(body, i - 1, depth - 1))
    ELSE MatchingOpen(body, i - 1, depth)

\* what the function-name pass should make of a line: the final parenthesized
\* group, parentheses of the identifier included, is the function name
ExpectedStatsLine(line, query) ==
    LET body == LineBody(line)
        open == IF body # <<>> /\ body[Len(body)] = ")"
                THEN MatchingOpen(body, Len(body), 0) ELSE 0
        name == SubSeq(body, open + 1, Len(body) - 1)
    IN  IF body = <<>> \/ body[Len(body)] # ")" \/ ~Contains(body, "(")
        THEN line
        ELSE IF open = 0 THEN ProcessLine(line, query)
        ELSE IF name \in IGNORE_FUNC_NAMES THEN line
        ELSE html_escape(SubSeq(body, 1, open - 1)) \o <<"(">>
                \o FuncLink(query, name) \o <<")", NL>>

\* C10: the function-name pass changes only lines that end with a parenthesized
\* group; a name "function" or "" leaves the line as it is; otherwise the final
\* group, whole even when the identifier holds parentheses itself, becomes an
\* anchor that sets func_name to it, after the line's prefix.
C10_FuncNameAnchors ==
    phase = "done"
        => LET lines == splitlines(output)
           IN  result = Flatten([i \in 1..Len(lines) |->
                              ExpectedStatsLine(lines[i], request_query)])

====
